---- MODULE Spec2Model ----
(***************************************************************************)
(* Event-sourcing core of Toasty-Analytics: the EventStore of              *)
(* src/src/event_sourcing/event_store.py.  The event_store table is the    *)
(* sequence log (in insertion order), every thread that calls append is a  *)
(* process that steps through the method, and the handler registry is the  *)
(* dict of lists the class keeps in memory.  The CommandHandler of         *)
(* commands.py runs on such a thread as a sequence of appends, and the     *)
(* ProjectionManager of projections.py is the two dicts its handlers and   *)
(* its rebuilds write.                                                     *)
(***************************************************************************)
EXTENDS Integers, Sequences, FiniteSets, TLC

VARIABLES
    log,        \* rows of the event_store table, in insertion order
    handlers,   \* EventStore.handlers: event type -> list of handlers
    now,        \* the wall clock read by datetime.utcnow()
    pc,         \* where each thread is inside append
    call,       \* the arguments of the append call a thread is running
    event,      \* the Event object a thread built (line 165)
    hlive,      \* whether _publish_event iterates the registry's own list
    hidx,       \* how many handlers _publish_event has invoked so far
    hraised,    \* the position of the first handler that raised in the last
                \* fan-out of a thread, 0 when none did
    invoked,    \* every handler invocation so far: <<handler, event_id>>
    ret,        \* what the append call that just ended returned or raised
    result,     \* what the read operation or command that just ended
                \* returned or raised
    user_projections,     \* ProjectionManager.user_projections
    grading_projections,  \* ProjectionManager.grading_projections
    cmd         \* the command each thread is running in the CommandHandler

vars == <<log, handlers, now, pc, call, event, hlive, hidx, hraised, invoked,
          ret, result, user_projections, grading_projections, cmd>>

\* the state of the projection manager and of the command handler
pvars == <<user_projections, grading_projections, cmd>>

----------------------------------------------------------------------------
(* Bounds of the model *)

\* rows of the table, per specification
MaxEvents == 3

MaxHandledEvents == 2

MaxReadEvents == 3

MaxFeedEvents == 2

MaxLogEvents == 2

MaxLogHandlers == 1

\* ticks of the clock
MaxTime == 1

\* calls of register_handler
MaxHandlers == 3
\* rows the table holds when commands are issued one at a time
MaxCmdEvents == 3
\* rows the table holds when the projections are rebuilt
MaxRebuildEvents == 3
\* rows the table holds when aggregates are replayed
MaxReplayEvents == 2
\* rows the table holds when events of every kind are appended
MaxApplyEvents == 3

----------------------------------------------------------------------------
(* Values *)

Procs == {"t1", "t2"}

EventType == {"grading.requested", "grading.completed", "feedback.submitted",
              "strategy.learned", "user.created", "user.updated",
              "plugin.loaded", "threshold.updated"}

AggregateIds == {"g1", "u1"}

AggregateTypeOf(a) == IF a = "g1" THEN "grading" ELSE "user"

HandlerIds == {"h1", "h2"}

\* expected_version: Optional[int] = None
NoVersion == -1

\* metadata: Optional[Dict] = None, and the empty dict {}
NoMetadata == "None"

EmptyDict == "{}"

NoEvent == [event_id |-> 0, event_type |-> "", aggregate_id |-> "",
            aggregate_type |-> "", data |-> "", metadata |-> "",
            timestamp |-> 0, version |-> 0]

NoCall == [expected_version |-> NoVersion, registered |-> <<>>]

NoRet == [proc |-> "", kind |-> "none", event_type |-> "",
          aggregate_id |-> "", event |-> NoEvent, expected |-> NoVersion, actual |-> NoVersion]

NoResult == [op |-> "none"]

\* no command is running in the thread
NoCmd == [name |-> "none"]

----------------------------------------------------------------------------
(* Helpers over sequences *)

Max(S) == CHOOSE x \in S : \A y \in S : y <= x

Min(S) == CHOOSE x \in S : \A y \in S : x <= y

IsPrefix(s, t) == Len(s) <= Len(t) /\ \A i \in 1..Len(s) : s[i] = t[i]

\* the rows of the table that belong to one aggregate
EventsOf(l, a) == {i \in 1..Len(l) : l[i].aggregate_id = a}

----------------------------------------------------------------------------
(* EventStore._get_current_version: the version of the row with the        *)
(* highest version of the aggregate, 0 when it has no row.                 *)

CurrentVersionLowest(l, a) ==
    IF EventsOf(l, a) = {} THEN 0 ELSE Min({l[i].version : i \in EventsOf(l, a)})

_get_current_version(l, a) ==
    IF EventsOf(l, a) = {} THEN 0 ELSE Max({l[i].version : i \in EventsOf(l, a)})

(* uuid.uuid4(): an identifier no persisted or in-flight event carries.    *)
UsedIds == {log[i].event_id : i \in 1..Len(log)}
           \cup {event[p].event_id : p \in Procs}

uuid4 == Min((1..(Cardinality(UsedIds) + 1)) \ UsedIds)

(* metadata or {}, line 171 *)
MetadataOrEmpty(m) == IF m = NoMetadata THEN EmptyDict ELSE m

(* the optimistic concurrency check of append, lines 159-162 *)
VersionConflictOnlyAhead(expected_version, current_version) ==
    expected_version # NoVersion /\ current_version < expected_version

VersionConflict(expected_version, current_version) ==
    expected_version # NoVersion /\ current_version # expected_version

----------------------------------------------------------------------------
(* CommandHandler: where a command goes on when the append it called       *)
(* has returned, and when it has raised.  No method of the class catches   *)
(* an exception, so a failed append ends the command.                      *)

AfterAppend(c) ==
    CASE c.name = "handle_grade_code" /\ c.step = "requested" -> "completed"
      [] c.name = "handle_submit_feedback" /\ c.step = "feedback" ->
            IF c.command.rating >= 4 THEN "strategy" ELSE "return"
      [] OTHER -> "return"

AfterAppendSwallowsError(c) == AfterAppend(c)

AfterAppendRaised(c) == "raise"

----------------------------------------------------------------------------
Init ==
    /\ log = <<>>
    /\ handlers = [t \in EventType |-> <<>>]
    /\ now = 0
    /\ pc = [p \in Procs |-> "idle"]
    /\ call = [p \in Procs |-> NoCall]
    /\ event = [p \in Procs |-> NoEvent]
    /\ hlive = [p \in Procs |-> FALSE]
    /\ hidx = [p \in Procs |-> 0]
    /\ hraised = [p \in Procs |-> 0]
    /\ invoked = <<>>
    /\ ret = NoRet
    /\ result = NoResult
    /\ user_projections = <<>>
    /\ grading_projections = <<>>
    /\ cmd = [p \in Procs |-> NoCmd]

\* appends that may still add a row
InFlight == {p \in Procs : pc[p] = "commit"}

(* the clock advances *)
Tick ==
    /\ now < MaxTime
    /\ now' = now + 1
    /\ ret' = NoRet
    /\ result' = NoResult
    /\ UNCHANGED <<log, handlers, pc, call, event, hlive, hidx, hraised,
                   invoked>>
    /\ UNCHANGED pvars

(* register_handler(event_type, handler), lines 346-349 *)
TotalRegistered ==
    LET RECURSIVE Sum(_)
        Sum(S) == IF S = {} THEN 0
                  ELSE LET t == CHOOSE t \in S : TRUE
                       IN Len(handlers[t]) + Sum(S \ {t})
    IN Sum(EventType)

register_handler(t, h) ==
    /\ TotalRegistered < MaxHandlers
    /\ handlers' = [handlers EXCEPT ![t] = Append(@, h)]
    /\ ret' = NoRet
    /\ result' = NoResult
    /\ UNCHANGED <<log, now, pc, call, event, hlive, hidx, hraised, invoked>>
    /\ UNCHANGED pvars

(* append, lines 152-174: a session is opened, the current version is read, *)
(* the expected version is checked and the Event is built; a conflict      *)
(* raises ValueError, which lines 200-205 roll back and re-raise.          *)
AppendRead(p, t, a, at, d, m, ev) ==
    /\ pc[p] = "idle"
    /\ LET current_version == _get_current_version(log, a)
       IN IF VersionConflict(ev, current_version)
          THEN /\ ret' = [proc |-> p, kind |-> "conflict",
                          event_type |-> t, aggregate_id |-> a, event |-> NoEvent,
                          expected |-> ev, actual |-> current_version]
               /\ cmd' = IF cmd[p] = NoCmd THEN cmd
                         ELSE [cmd EXCEPT ![p].step = AfterAppendRaised(cmd[p])]
               /\ UNCHANGED <<pc, call, event>>
          ELSE /\ pc' = [pc EXCEPT ![p] = "commit"]
               /\ call' = [call EXCEPT ![p] =
                    [expected_version |-> ev, registered |-> handlers[t]]]
               /\ event' = [event EXCEPT ![p] =
                    [event_id |-> uuid4,
                     event_type |-> t,
                     aggregate_id |-> a,
                     aggregate_type |-> at,
                     data |-> d,
                     metadata |-> MetadataOrEmpty(m),
                     timestamp |-> now,
                     version |-> current_version + 1]]
               /\ ret' = NoRet
               /\ cmd' = cmd
    /\ result' = NoResult
    /\ UNCHANGED <<log, handlers, now, hlive, hidx, hraised, invoked,
                   user_projections, grading_projections>>

(* lines 177-189: session.add and session.commit insert the row *)
PersistUpsert(l, e) ==
    IF \E i \in 1..Len(l) : l[i].aggregate_id = e.aggregate_id
                            /\ l[i].version = e.version
    THEN [i \in 1..Len(l) |->
            IF l[i].aggregate_id = e.aggregate_id /\ l[i].version = e.version
            THEN e ELSE l[i]]
    ELSE Append(l, e)

Persist(l, e) == Append(l, e)

(* lines 176-196 and 354: the row is committed and _publish_event takes    *)
(* handlers = self.handlers.get(type, []): the registry's own list when    *)
(* the type has one, a fresh empty list otherwise.                         *)
AppendCommit(p) ==
    /\ pc[p] = "commit"
    /\ log' = Persist(log, event[p])
    /\ pc' = [pc EXCEPT ![p] = "publish"]
    /\ hlive' = [hlive EXCEPT ![p] = handlers[event[p].event_type] # <<>>]
    /\ hidx' = [hidx EXCEPT ![p] = 0]
    /\ hraised' = [hraised EXCEPT ![p] = 0]
    /\ ret' = NoRet
    /\ result' = NoResult
    /\ UNCHANGED <<handlers, now, call, event, invoked>>
    /\ UNCHANGED pvars

\* session.rollback(), line 201: the transaction of this append is undone,
\* which holds the one row that was not committed; the rows earlier
\* appends committed, those of the same command included, stay
RollbackCommand(l, p) == IF cmd[p] = NoCmd THEN l ELSE cmd[p].before.log

Rollback(l, p) == l

(* lines 200-205: the commit fails in the storage layer; the session is    *)
(* rolled back and the exception is re-raised.                             *)
AppendStorageError(p) ==
    /\ pc[p] = "commit"
    /\ log' = Rollback(log, p)
    /\ pc' = [pc EXCEPT ![p] = "idle"]
    /\ ret' = [proc |-> p, kind |-> "storage",
               event_type |-> event[p].event_type,
               aggregate_id |-> event[p].aggregate_id, event |-> NoEvent,
               expected |-> call[p].expected_version, actual |-> NoVersion]
    /\ call' = [call EXCEPT ![p] = NoCall]
    /\ event' = [event EXCEPT ![p] = NoEvent]
    /\ result' = NoResult
    /\ cmd' = IF cmd[p] = NoCmd THEN cmd
              ELSE [cmd EXCEPT ![p].step = AfterAppendRaised(cmd[p])]
    /\ UNCHANGED <<handlers, now, hlive, hidx, hraised, invoked,
                   user_projections, grading_projections>>

\* the list the for loop of _publish_event walks, line 356
PublishListSkipsFirst(p) ==
    IF hlive[p] THEN Tail(handlers[event[p].event_type]) ELSE <<>>

PublishList(p) ==
    IF hlive[p] THEN handlers[event[p].event_type] ELSE <<>>

\* where append goes on after a handler raised: the except clause of
\* line 359 swallows the exception and the loop goes on
HandlerErrorPropagates(p) == "idle"

AfterHandlerRaised(p) == "publish"

(* lines 356-360: one turn of the loop; the handler is called with the     *)
(* event and an exception it raises is caught and logged.                  *)
PublishHandler(p, raises) ==
    /\ pc[p] = "publish"
    /\ hidx[p] < Len(PublishList(p))
    /\ invoked' = Append(invoked, <<PublishList(p)[hidx[p] + 1],
                                    event[p].event_id>>)
    /\ hidx' = [hidx EXCEPT ![p] = @ + 1]
    /\ hraised' = [hraised EXCEPT ![p] =
                      IF raises /\ @ = 0 THEN hidx[p] + 1 ELSE @]
    /\ IF raises /\ AfterHandlerRaised(p) # "publish"
       THEN /\ pc' = [pc EXCEPT ![p] = AfterHandlerRaised(p)]
            /\ ret' = [proc |-> p, kind |-> "handler",
                       event_type |-> event[p].event_type,
                       aggregate_id |-> event[p].aggregate_id,
                       event |-> NoEvent,
                       expected |-> call[p].expected_version,
                       actual |-> NoVersion]
            /\ call' = [call EXCEPT ![p] = NoCall]
            /\ event' = [event EXCEPT ![p] = NoEvent]
       ELSE /\ ret' = NoRet
            /\ UNCHANGED <<pc, call, event>>
    /\ result' = NoResult
    /\ UNCHANGED <<log, handlers, now, hlive>>
    /\ UNCHANGED pvars

(* line 198: the loop is over and append returns the event *)
AppendReturn(p) ==
    /\ pc[p] = "publish"
    /\ hidx[p] >= Len(PublishList(p))
    /\ pc' = [pc EXCEPT ![p] = "idle"]
    /\ ret' = [proc |-> p, kind |-> "ok",
               event_type |-> event[p].event_type,
               aggregate_id |-> event[p].aggregate_id, event |-> event[p],
               expected |-> call[p].expected_version,
               actual |-> event[p].version - 1]
    /\ call' = [call EXCEPT ![p] = NoCall]
    /\ event' = [event EXCEPT ![p] = NoEvent]
    /\ result' = NoResult
    /\ cmd' = IF cmd[p] = NoCmd THEN cmd
              ELSE [cmd EXCEPT ![p].step = AfterAppend(cmd[p])]
    /\ UNCHANGED <<log, handlers, now, hlive, hidx, hraised, invoked,
                   user_projections, grading_projections>>

----------------------------------------------------------------------------
(* Python values.  An Optional value is None or the value; a float is the  *)
(* double it is; a list or tuple keeps its kind, which json does not.      *)

None == <<>>

Some(x) == <<x>>

List(items) == [kind |-> "list", items |-> items]

\* A Python float is an IEEE 754 double: zero, or m * 2^e with m a number
\* of MantissaBits binary digits, kept as the sequence of its digits (most
\* significant first), and every operation rounds its exact result to the
\* nearest such number, ties to the even one.  The values of the model are
\* not negative and far from the ends of the exponent range.
MantissaBits == 53

Zeros(n) == [i \in 1..n |-> 0]

RECURSIVE Bits(_)
Bits(n) == IF n = 0 THEN <<>> ELSE Append(Bits(n \div 2), n % 2)

RECURSIVE StripZeros(_)
StripZeros(b) ==
    IF b # <<>> /\ b[1] = 0 THEN StripZeros(Tail(b)) ELSE b

\* a + b: digit i of the sum is a[i] + b[i] plus the carry that a pair of
\* ones further right sends through the digits between
AddBits(a, b) ==
    LET n == 1 + (IF Len(a) > Len(b) THEN Len(a) ELSE Len(b))
        x == Zeros(n - Len(a)) \o a
        y == Zeros(n - Len(b)) \o b
        carry(i) == \E j \in (i + 1)..n :
                       /\ x[j] + y[j] = 2
                       /\ \A k \in (i + 1)..(j - 1) : x[k] + y[k] = 1
    IN StripZeros([i \in 1..n |->
                      (x[i] + y[i] + (IF carry(i) THEN 1 ELSE 0)) % 2])

\* a * k for a small natural number k
RECURSIVE MulBits(_, _)
MulBits(a, k) == IF k = 0 THEN <<>> ELSE AddBits(MulBits(a, k - 1), a)

\* quotient and remainder of a by a small natural number k
RECURSIVE DivFrom(_, _, _, _, _)
DivFrom(a, k, i, r, acc) ==
    IF i > Len(a) THEN [q |-> acc, r |-> r]
    ELSE LET v == 2 * r + a[i]
         IN DivFrom(a, k, i + 1, v % k, Append(acc, v \div k))

DivBits(a, k) == DivFrom(a, k, 1, 0, <<>>)

FloatZero == [m |-> <<>>, e |-> 0]

\* the double nearest to b * 2^e, or to a little more when sticky
Round(bits, sticky, e) ==
    LET b == StripZeros(bits)
        n == Len(b)
    IN IF b = <<>> THEN FloatZero
       ELSE IF n <= MantissaBits
       THEN [m |-> b \o Zeros(MantissaBits - n), e |-> e - (MantissaBits - n)]
       ELSE LET top == SubSeq(b, 1, MantissaBits)
                guard == b[MantissaBits + 1]
                rest == sticky \/ \E i \in (MantissaBits + 2)..n : b[i] = 1
                up == guard = 1 /\ (rest \/ top[MantissaBits] = 1)
                m == IF up THEN AddBits(top, <<1>>) ELSE top
                drop == n - MantissaBits
            IN IF Len(m) > MantissaBits
               THEN [m |-> SubSeq(m, 1, MantissaBits), e |-> e + drop + 1]
               ELSE [m |-> m, e |-> e + drop]

\* x + y before rounding: as many digits as the sum has
ExactAdd(x, y) ==
    LET e == IF x.e < y.e THEN x.e ELSE y.e
    IN [m |-> AddBits(x.m \o Zeros(x.e - e), y.m \o Zeros(y.e - e)),
        e |-> e]

\* x + y
FloatAdd(x, y) ==
    IF x = FloatZero THEN y
    ELSE IF y = FloatZero THEN x
    ELSE LET s == ExactAdd(x, y) IN Round(s.m, FALSE, s.e)

\* x * k for an int k >= 0
FloatMulInt(x, k) == Round(MulBits(x.m, k), FALSE, x.e)

\* x / k for an int k > 0
FloatDivInt(x, k) ==
    LET s == Len(Bits(k)) + 2
        d == DivBits(x.m \o Zeros(s), k)
    IN Round(d.q, d.r # 0, x.e - s)

\* the float n / d of two small ints: the double nearest to the quotient,
\* which is also what the literal of that decimal reads as
Float(n, d) == FloatDivInt(Round(Bits(n), FALSE, 0), d)

\* d.get(k) and d.get(k, default)
Get(d, k) == IF k \in DOMAIN d THEN Some(d[k]) ELSE None

GetOr(d, k, default) == IF k \in DOMAIN d THEN d[k] ELSE default

(* json.loads(json.dumps(data)): what a reader gets for the data append    *)
(* wrote, lines 183 and 244.  A str, an int, a float, None and a dict with *)
(* str keys are read back as written; a list or a tuple is written as an   *)
(* array and read back as a list.                                          *)
json_roundtrip(d) ==
    [k \in DOMAIN d |->
        IF k = "dimensions" THEN List(d[k].items) ELSE d[k]]

----------------------------------------------------------------------------
(* Read operations.  A SELECT ... ORDER BY key returns the matching rows in *)
(* some order in which key never decreases: SQL leaves the order of rows   *)
(* with equal keys open, so a read may return any such order.              *)

\* the sequences that list every element of the set rows exactly once
Permutations_(rows) ==
    {s \in [1..Cardinality(rows) -> rows] :
        \A i, j \in 1..Cardinality(rows) : i # j => s[i] # s[j]}

\* query.order_by(version) / query.order_by(timestamp)
OrderByVersion(l, rows) ==
    {s \in Permutations_(rows) :
        \A i, j \in 1..Len(s) : i < j => l[s[i]].version <= l[s[j]].version}

OrderByTimestamp(l, rows) ==
    {s \in Permutations_(rows) :
        \A i, j \in 1..Len(s) : i < j => l[s[i]].timestamp <= l[s[j]].timestamp}

\* query.limit(limit)
Limit(s, limit) == SubSeq(s, 1, IF limit < Len(s) THEN limit ELSE Len(s))

\* the Event objects built from the rows, lines 236-248
ToEvents(l, s) ==
    [i \in 1..Len(s) |-> [l[s[i]] EXCEPT !.data = json_roundtrip(@)]]

NoTime == -1

NoType == "None"

(* get_events, lines 224-232: the WHERE clause *)
GetEventsRowsFromExclusive(l, aggregate_id, from_version, to_version) ==
    {i \in 1..Len(l) :
        /\ l[i].aggregate_id = aggregate_id
        /\ l[i].version > from_version
        /\ (to_version # NoVersion => l[i].version <= to_version)}

GetEventsRows(l, aggregate_id, from_version, to_version) ==
    {i \in 1..Len(l) :
        /\ l[i].aggregate_id = aggregate_id
        /\ l[i].version >= from_version
        /\ (to_version # NoVersion => l[i].version <= to_version)}

\* every list get_events may return
GetEventsResults(l, aggregate_id, from_version, to_version) ==
    {ToEvents(l, s) :
        s \in OrderByVersion(l, GetEventsRows(l, aggregate_id, from_version,
                                              to_version))}

(* get_all_events, lines 277-286: the WHERE clause *)
GetAllEventsRowsNoToTime(l, event_type, from_time, to_time) ==
    {i \in 1..Len(l) :
        /\ (event_type # NoType => l[i].event_type = event_type)
        /\ (from_time # NoTime => l[i].timestamp >= from_time)}

GetAllEventsRows(l, event_type, from_time, to_time) ==
    {i \in 1..Len(l) :
        /\ (event_type # NoType => l[i].event_type = event_type)
        /\ (from_time # NoTime => l[i].timestamp >= from_time)
        /\ (to_time # NoTime => l[i].timestamp <= to_time)}

\* every list get_all_events may return, lines 288-306
GetAllEventsResults(l, event_type, from_time, to_time, limit) ==
    {ToEvents(l, Limit(s, limit)) :
        s \in OrderByTimestamp(l, GetAllEventsRows(l, event_type, from_time,
                                                   to_time))}

(* get_events(aggregate_id, from_version, to_version) *)
get_events(aggregate_id, from_version, to_version) ==
    /\ result = NoResult
    /\ \E r \in GetEventsResults(log, aggregate_id, from_version, to_version) :
         result' = [op |-> "get_events", aggregate_id |-> aggregate_id,
                    from_version |-> from_version, to_version |-> to_version,
                    events |-> r]
    /\ ret' = NoRet
    /\ UNCHANGED <<log, handlers, now, pc, call, event, hlive, hidx, hraised,
                   invoked>>
    /\ UNCHANGED pvars

(* get_all_events(event_type, from_time, to_time, limit) *)
get_all_events(event_type, from_time, to_time, limit) ==
    /\ result = NoResult
    /\ \E r \in GetAllEventsResults(log, event_type, from_time, to_time, limit) :
         result' = [op |-> "get_all_events", event_type |-> event_type,
                    from_time |-> from_time, to_time |-> to_time,
                    limit |-> limit, events |-> r]
    /\ ret' = NoRet
    /\ UNCHANGED <<log, handlers, now, pc, call, event, hlive, hidx, hraised,
                   invoked>>
    /\ UNCHANGED pvars

(* replay_events, lines 328-336.  apply_func is the caller's; the model    *)
(* uses one that records the order of application: it appends the          *)
(* event_id of the event to the state.                                     *)
apply_func(state, e) == Append(state, e.event_id)

RECURSIVE FoldLeft(_, _, _)
FoldLeft(state, events, i) ==
    IF i > Len(events) THEN state
    ELSE FoldLeft(apply_func(state, events[i]), events, i + 1)

\* from_version: int = 0, the default of get_events
DefaultFromVersion == 0

\* limit: int = 1000, the default of get_all_events
DefaultLimit == 1000

\* get_all_events(limit=10000), the read of rebuild_all_projections
RebuildLimit == 10000

ReplayFold(initial_state, events) == FoldLeft(initial_state, events, 1)

replay_events(aggregate_id, initial_state) ==
    /\ result = NoResult
    /\ \E events \in GetEventsResults(log, aggregate_id, DefaultFromVersion,
                                      NoVersion) :
         result' = [op |-> "replay_events", aggregate_id |-> aggregate_id,
                    initial_state |-> initial_state,
                    state |-> ReplayFold(initial_state, events)]
    /\ ret' = NoRet
    /\ UNCHANGED <<log, handlers, now, pc, call, event, hlive, hidx, hraised,
                   invoked>>
    /\ UNCHANGED pvars

----------------------------------------------------------------------------
(* projections.py: the read models and their transition functions.         *)

\* UserProjection(user_id=user_id), lines 22-30
UserProjection(user_id) ==
    [user_id |-> user_id, username |-> None, email |-> None,
     created_at |-> None, total_gradings |-> 0, average_score |-> Float(0, 1),
     feedback_count |-> 0, strategies_learned |-> 0, last_activity |-> None]

\* UserProjection.apply_event, lines 32-53
UserApplyNoStrategy(self, e) ==
    CASE e.event_type = "user.created" ->
            [self EXCEPT !.username = Get(e.data, "username"),
                         !.email = Get(e.data, "email"),
                         !.created_at = Some(e.timestamp)]
      [] e.event_type = "grading.completed" ->
            LET n == self.total_gradings + 1
                score == GetOr(e.data, "score", Float(0, 1))
            IN [self EXCEPT
                  !.total_gradings = n,
                  !.average_score =
                      FloatDivInt(FloatAdd(FloatMulInt(@, n - 1), score), n),
                  !.last_activity = Some(e.timestamp)]
      [] e.event_type = "feedback.submitted" ->
            [self EXCEPT !.feedback_count = @ + 1,
                         !.last_activity = Some(e.timestamp)]
      [] OTHER -> self

UserApply(self, e) ==
    CASE e.event_type = "user.created" ->
            [self EXCEPT !.username = Get(e.data, "username"),
                         !.email = Get(e.data, "email"),
                         !.created_at = Some(e.timestamp)]
      [] e.event_type = "grading.completed" ->
            LET n == self.total_gradings + 1
                score == GetOr(e.data, "score", Float(0, 1))
            IN [self EXCEPT
                  !.total_gradings = n,
                  !.average_score =
                      FloatDivInt(FloatAdd(FloatMulInt(@, n - 1), score), n),
                  !.last_activity = Some(e.timestamp)]
      [] e.event_type = "feedback.submitted" ->
            [self EXCEPT !.feedback_count = @ + 1,
                         !.last_activity = Some(e.timestamp)]
      [] e.event_type = "strategy.learned" ->
            [self EXCEPT !.strategies_learned = @ + 1]
      [] OTHER -> self

\* GradingProjection(grading_id=grading_id, user_id=user_id), lines 60-69
GradingProjection(grading_id, user_id) ==
    [grading_id |-> grading_id, user_id |-> user_id, code_language |-> None,
     dimensions |-> List(<<>>), score |-> None, status |-> "pending",
     requested_at |-> None, completed_at |-> None, duration_ms |-> None,
     feedback_received |-> FALSE]

\* int((completed_at - requested_at).total_seconds() * 1000), lines 84-86;
\* the clock of the model counts milliseconds
DurationMsReversed(requested_at, completed_at) == requested_at - completed_at

DurationMs(requested_at, completed_at) == completed_at - requested_at

\* GradingProjection.apply_event, lines 71-89
GradingApplyKeepsStatus(self, e) ==
    CASE e.event_type = "grading.requested" ->
            [self EXCEPT !.code_language = Get(e.data, "language"),
                         !.dimensions = GetOr(e.data, "dimensions", List(<<>>)),
                         !.requested_at = Some(e.timestamp),
                         !.status = "pending"]
      [] e.event_type = "grading.completed" ->
            [self EXCEPT !.score = Get(e.data, "score"),
                         !.completed_at = Some(e.timestamp),
                         !.duration_ms =
                             IF self.requested_at # None
                             THEN Some(DurationMs(self.requested_at[1],
                                                  e.timestamp))
                             ELSE @]
      [] e.event_type = "feedback.submitted" ->
            [self EXCEPT !.feedback_received = TRUE]
      [] OTHER -> self

GradingApply(self, e) ==
    CASE e.event_type = "grading.requested" ->
            [self EXCEPT !.code_language = Get(e.data, "language"),
                         !.dimensions = GetOr(e.data, "dimensions", List(<<>>)),
                         !.requested_at = Some(e.timestamp),
                         !.status = "pending"]
      [] e.event_type = "grading.completed" ->
            [self EXCEPT !.score = Get(e.data, "score"),
                         !.completed_at = Some(e.timestamp),
                         !.status = "completed",
                         !.duration_ms =
                             IF self.requested_at # None
                             THEN Some(DurationMs(self.requested_at[1],
                                                  e.timestamp))
                             ELSE @]
      [] e.event_type = "feedback.submitted" ->
            [self EXCEPT !.feedback_received = TRUE]
      [] OTHER -> self

\* d[k] = v on a dict
DictSet(d, k, v) == [x \in DOMAIN d \cup {k} |-> IF x = k THEN v ELSE d[x]]

\* event.data.get("user_id") or event.aggregate_id, line 145
UserKey(e) ==
    LET user_id == Get(e.data, "user_id")
    IN IF user_id # None /\ user_id[1] # "" THEN user_id[1]
       ELSE e.aggregate_id

\* ProjectionManager._handle_user_event, lines 143-151: the map afterwards
_handle_user_event(ups, e) ==
    LET user_id == UserKey(e)
        self == IF user_id \in DOMAIN ups THEN ups[user_id]
                ELSE UserProjection(user_id)
    IN DictSet(ups, user_id, UserApply(self, e))

\* ProjectionManager._handle_grading_event, lines 153-164
HandleGradingEventAlwaysNew(gps, e) ==
    DictSet(gps, e.aggregate_id,
            GradingApply(GradingProjection(e.aggregate_id,
                             GetOr(e.data, "user_id", "unknown")), e))

_handle_grading_event(gps, e) ==
    LET grading_id == e.aggregate_id
        user_id == GetOr(e.data, "user_id", "unknown")
        self == IF grading_id \in DOMAIN gps THEN gps[grading_id]
                ELSE GradingProjection(grading_id, user_id)
    IN DictSet(gps, grading_id, GradingApply(self, e))

----------------------------------------------------------------------------
(* ProjectionManager.__init__ and _register_handlers, lines 109-141: the   *)
(* registry once the manager is constructed on a new event store.          *)

ProjectionHandlers == {"_handle_user_event", "_handle_grading_event"}

UserEventTypes == {"user.created", "grading.completed", "feedback.submitted",
                   "strategy.learned"}

GradingEventTypes == {"grading.requested", "grading.completed",
                      "feedback.submitted"}

RegisteredHandlers ==
    [t \in EventType |->
        (IF t \in UserEventTypes THEN <<"_handle_user_event">> ELSE <<>>)
        \o (IF t \in GradingEventTypes THEN <<"_handle_grading_event">>
            ELSE <<>>)]

InitPM ==
    /\ log = <<>>
    /\ handlers = RegisteredHandlers
    /\ now = 0
    /\ pc = [p \in Procs |-> "idle"]
    /\ call = [p \in Procs |-> NoCall]
    /\ event = [p \in Procs |-> NoEvent]
    /\ hlive = [p \in Procs |-> FALSE]
    /\ hidx = [p \in Procs |-> 0]
    /\ hraised = [p \in Procs |-> 0]
    /\ invoked = <<>>
    /\ ret = NoRet
    /\ result = NoResult
    /\ user_projections = <<>>
    /\ grading_projections = <<>>
    /\ cmd = [p \in Procs |-> NoCmd]

(* _publish_event, lines 356-360, when the handler is one of the           *)
(* projection manager's: the handler updates its map.  On the data the     *)
(* command handlers write neither handler raises.                          *)
PublishProjection(p) ==
    /\ pc[p] = "publish"
    /\ hidx[p] < Len(PublishList(p))
    /\ LET handler == PublishList(p)[hidx[p] + 1]
       IN /\ handler \in ProjectionHandlers
          /\ user_projections' =
                IF handler = "_handle_user_event"
                THEN _handle_user_event(user_projections, event[p])
                ELSE user_projections
          /\ grading_projections' =
                IF handler = "_handle_grading_event"
                THEN _handle_grading_event(grading_projections, event[p])
                ELSE grading_projections
          /\ invoked' = Append(invoked, <<handler, event[p].event_id>>)
    /\ hidx' = [hidx EXCEPT ![p] = @ + 1]
    /\ ret' = NoRet
    /\ result' = NoResult
    /\ UNCHANGED <<log, handlers, now, pc, call, event, hlive, hraised, cmd>>

----------------------------------------------------------------------------
(* commands.py: the CommandHandler.  A command is a sequence of appends;   *)
(* cmd[p].step names the append the thread is at, "return" once the last   *)
(* one has returned and "raise" once one has raised.                       *)

\* score = 85.0, the mock score of handle_grade_code
MockScore == 85

\* str(uuid.uuid4()) as an aggregate id: an id of the pool that no event,
\* persisted or in flight, and no running command carries
UsedAggregateIds ==
    {log[i].aggregate_id : i \in 1..Len(log)}
    \cup {event[p].aggregate_id : p \in Procs}
    \cup {cmd[p].id : p \in {q \in Procs : cmd[q] # NoCmd}}

FreshId(pool) ==
    pool[Min({i \in 1..Len(pool) : pool[i] \notin UsedAggregateIds})]

GradingIdPool == <<"g1", "g2", "g3", "g4">>

UserIdPool == <<"n1", "n2", "n3", "n4", "n5", "n6">>

\* what a command reads of the state when it starts, for the record of
\* what it did
Before ==
    [log |-> log, user_projections |-> user_projections,
     grading_projections |-> grading_projections]

\* grading_id = str(uuid.uuid4()), line 79
handle_grade_code(p, command) ==
    /\ pc[p] = "idle"
    /\ cmd[p] = NoCmd
    /\ cmd' = [cmd EXCEPT ![p] =
                 [name |-> "handle_grade_code", step |-> "requested",
                  command |-> command, id |-> FreshId(GradingIdPool),
                  before |-> Before]]
    /\ ret' = NoRet
    /\ result' = NoResult
    /\ UNCHANGED <<log, handlers, now, pc, call, event, hlive, hidx, hraised,
                   invoked, user_projections, grading_projections>>

\* feedback_id = str(uuid.uuid4()), line 128: an id nothing else carries
handle_submit_feedback(p, command) ==
    /\ pc[p] = "idle"
    /\ cmd[p] = NoCmd
    /\ cmd' = [cmd EXCEPT ![p] =
                 [name |-> "handle_submit_feedback", step |-> "feedback",
                  command |-> command, id |-> "feedback_id",
                  before |-> Before]]
    /\ ret' = NoRet
    /\ result' = NoResult
    /\ UNCHANGED <<log, handlers, now, pc, call, event, hlive, hidx, hraised,
                   invoked, user_projections, grading_projections>>

\* user_id = command.user_id or str(uuid.uuid4()), line 174
CreateUserIdAlwaysNew(command) == FreshId(UserIdPool)

CreateUserId(command) ==
    IF command.user_id # "" THEN command.user_id ELSE FreshId(UserIdPool)

handle_create_user(p, command) ==
    /\ pc[p] = "idle"
    /\ cmd[p] = NoCmd
    /\ cmd' = [cmd EXCEPT ![p] =
                 [name |-> "handle_create_user", step |-> "created",
                  command |-> command,
                  id |-> CreateUserId(command),
                  before |-> Before]]
    /\ ret' = NoRet
    /\ result' = NoResult
    /\ UNCHANGED <<log, handlers, now, pc, call, event, hlive, hidx, hraised,
                   invoked, user_projections, grading_projections>>

\* the arguments of the event_store.append call of each step:
\* lines 82-93, 101-112, 131-142, 150-160 and 177-187
AppendArgs(c) ==
    CASE c.step = "requested" ->
            [event_type |-> "grading.requested", aggregate_id |-> c.id,
             aggregate_type |-> "grading",
             data |-> [user_id |-> c.command.user_id,
                       code |-> c.command.code,
                       language |-> c.command.language,
                       dimensions |-> c.command.dimensions],
             metadata |-> c.command.metadata]
      [] c.step = "completed" ->
            [event_type |-> "grading.completed", aggregate_id |-> c.id,
             aggregate_type |-> "grading",
             data |-> [user_id |-> c.command.user_id,
                       score |-> Float(MockScore, 1),
                       dimensions |-> c.command.dimensions,
                       breakdown |-> [code_quality |-> 90,
                                      reliability |-> 80]],
             metadata |-> "processing_time_ms"]
      [] c.step = "feedback" ->
            [event_type |-> "feedback.submitted",
             aggregate_id |-> c.command.grading_id,
             aggregate_type |-> "grading",
             data |-> [user_id |-> c.command.user_id,
                       grading_id |-> c.command.grading_id,
                       rating |-> c.command.rating,
                       comment |-> c.command.comment],
             metadata |-> c.command.metadata]
      [] c.step = "strategy" ->
            [event_type |-> "strategy.learned",
             aggregate_id |-> c.command.user_id,
             aggregate_type |-> "user",
             data |-> [user_id |-> c.command.user_id,
                       grading_id |-> c.command.grading_id,
                       strategy |-> "positive_feedback_pattern"],
             metadata |-> EmptyDict]
      [] c.step = "created" ->
            [event_type |-> "user.created", aggregate_id |-> c.id,
             aggregate_type |-> "user",
             data |-> [user_id |-> c.id,
                       username |-> c.command.username,
                       email |-> c.command.email],
             metadata |-> c.command.metadata]

AppendSteps == {"requested", "completed", "feedback", "strategy", "created"}

\* the expected_version a command passes to append: none
ExpectsPriorEvents(c) == IF c.step = "feedback" THEN 1 ELSE NoVersion

CommandExpectedVersion(c) == NoVersion

\* the command calls self.event_store.append(...)
CommandAppend(p) ==
    /\ cmd[p] # NoCmd
    /\ cmd[p].step \in AppendSteps
    /\ LET a == AppendArgs(cmd[p])
       IN AppendRead(p, a.event_type, a.aggregate_id, a.aggregate_type,
                     a.data, a.metadata, CommandExpectedVersion(cmd[p]))

\* return grading_id / feedback_id / user_id, lines 116, 162 and 191
CommandReturn(p) ==
    /\ pc[p] = "idle"
    /\ cmd[p] # NoCmd
    /\ cmd[p].step = "return"
    /\ result' = [op |-> cmd[p].name, raised |-> FALSE,
                  returned |-> cmd[p].id, command |-> cmd[p].command,
                  before |-> cmd[p].before]
    /\ cmd' = [cmd EXCEPT ![p] = NoCmd]
    /\ ret' = NoRet
    /\ UNCHANGED <<log, handlers, now, pc, call, event, hlive, hidx, hraised,
                   invoked, user_projections, grading_projections>>

\* the exception of the append leaves the method
CommandRaise(p) ==
    /\ pc[p] = "idle"
    /\ cmd[p] # NoCmd
    /\ cmd[p].step = "raise"
    /\ result' = [op |-> cmd[p].name, raised |-> TRUE,
                  returned |-> "", command |-> cmd[p].command,
                  before |-> cmd[p].before]
    /\ cmd' = [cmd EXCEPT ![p] = NoCmd]
    /\ ret' = NoRet
    /\ UNCHANGED <<log, handlers, now, pc, call, event, hlive, hidx, hraised,
                   invoked, user_projections, grading_projections>>

----------------------------------------------------------------------------
(* ProjectionManager: lookups, rebuilds and statistics.                    *)

\* dict.get(key): the value or None
Lookup(d, k) == IF k \in DOMAIN d THEN Some(d[k]) ELSE None

\* get_user_projection, lines 166-168
get_user_projection(user_id) ==
    /\ result = NoResult
    /\ result' = [op |-> "get_user_projection", id |-> user_id,
                  returned |-> Lookup(user_projections, user_id)]
    /\ ret' = NoRet
    /\ UNCHANGED <<log, handlers, now, pc, call, event, hlive, hidx, hraised,
                   invoked>>
    /\ UNCHANGED pvars

\* get_grading_projection, lines 170-172
get_grading_projection(grading_id) ==
    /\ result = NoResult
    /\ result' = [op |-> "get_grading_projection", id |-> grading_id,
                  returned |-> Lookup(grading_projections, grading_id)]
    /\ ret' = NoRet
    /\ UNCHANGED <<log, handlers, now, pc, call, event, hlive, hidx, hraised,
                   invoked>>
    /\ UNCHANGED pvars

\* the loop of rebuild_all_projections, lines 219-233, from event i on
RECURSIVE RebuildFold(_, _, _)
RebuildFold(maps, events, i) ==
    IF i > Len(events) THEN maps
    ELSE LET e == events[i]
             ups == IF e.event_type \in UserEventTypes
                    THEN _handle_user_event(maps.user_projections, e)
                    ELSE maps.user_projections
             gps == IF e.event_type \in GradingEventTypes
                    THEN _handle_grading_event(maps.grading_projections, e)
                    ELSE maps.grading_projections
         IN RebuildFold([user_projections |-> ups,
                         grading_projections |-> gps], events, i + 1)

\* the maps rebuild_all_projections leaves for one answer of the query
RebuildAll(events) ==
    RebuildFold([user_projections |-> <<>>, grading_projections |-> <<>>],
                events, 1)

\* rebuild_all_projections, lines 207-238: both maps are cleared, the
\* history is read with limit=10000 and every event is applied again
rebuild_all_projections ==
    /\ \E events \in GetAllEventsResults(log, NoType, NoTime, NoTime,
                                         RebuildLimit) :
         /\ user_projections' = RebuildAll(events).user_projections
         /\ grading_projections' = RebuildAll(events).grading_projections
         /\ result' = [op |-> "rebuild_all_projections", applied |-> events]
    /\ ret' = NoRet
    /\ UNCHANGED <<log, handlers, now, pc, call, event, hlive, hidx, hraised,
                   invoked, cmd>>

\* the loop of rebuild_user_projection, lines 197-198
RECURSIVE UserFold(_, _, _)
UserFold(projection, events, i) ==
    IF i > Len(events) THEN projection
    ELSE UserFold(UserApply(projection, events[i]), events, i + 1)

\* the filter of lines 190-194
UserEvents(events, user_id) ==
    SelectSeq(events, LAMBDA e : \/ Get(e.data, "user_id") = Some(user_id)
                                 \/ e.aggregate_id = user_id)

\* rebuild_user_projection, lines 174-205: the history is read with the
\* default limit, filtered, applied to a new projection, which is stored
rebuild_user_projection(user_id) ==
    /\ \E events \in GetAllEventsResults(log, NoType, NoTime, NoTime,
                                         DefaultLimit) :
         LET projection == UserFold(UserProjection(user_id),
                                    UserEvents(events, user_id), 1)
         IN /\ user_projections' = DictSet(user_projections, user_id,
                                           projection)
            /\ result' = [op |-> "rebuild_user_projection", id |-> user_id,
                          applied |-> UserEvents(events, user_id),
                          returned |-> projection]
    /\ ret' = NoRet
    /\ UNCHANGED <<log, handlers, now, pc, call, event, hlive, hidx, hraised,
                   invoked, grading_projections, cmd>>

\* sum(f(p) for p in d.values())
SumIntCountsUsers(d, keys) == Cardinality(keys)

RECURSIVE SumInt(_, _)
SumInt(d, keys) ==
    IF keys = {} THEN 0
    ELSE LET k == CHOOSE k \in keys : TRUE
         IN d[k].total_gradings + SumInt(d, keys \ {k})

RECURSIVE SumFloat(_, _)
SumFloat(d, keys) ==
    IF keys = {} THEN Float(0, 1)
    ELSE LET k == CHOOSE k \in keys : TRUE
         IN FloatAdd(d[k].average_score, SumFloat(d, keys \ {k}))

\* timedelta.days of a difference of the clock, which counts milliseconds
MsPerDay == 86400000

Days(ms) == ms \div MsPerDay

\* get_user_statistics, lines 240-262
UserStatistics(ups, utcnow) ==
    LET total_users == Cardinality(DOMAIN ups)
    IN [total_users |-> total_users,
        total_gradings |-> SumInt(ups, DOMAIN ups),
        average_score |->
            IF total_users > 0
            THEN FloatDivInt(SumFloat(ups, DOMAIN ups), total_users)
            ELSE Float(0, 1),
        active_users |->
            Cardinality({k \in DOMAIN ups :
                /\ ups[k].last_activity # None
                /\ Days(utcnow - ups[k].last_activity[1]) < 7})]

get_user_statistics ==
    /\ result = NoResult
    /\ result' = [op |-> "get_user_statistics",
                  returned |-> UserStatistics(user_projections, now)]
    /\ ret' = NoRet
    /\ UNCHANGED <<log, handlers, now, pc, call, event, hlive, hidx, hraised,
                   invoked>>
    /\ UNCHANGED pvars

(* replay_events with the apply function of the projection of the          *)
(* aggregate and initial_state=None: the projection is made from the       *)
(* first event, as the handlers of the manager make it, and every event    *)
(* of the aggregate is applied to it.                                      *)
ProjectionApply(state, e) ==
    IF e.aggregate_type = "grading"
    THEN Some(GradingApply(
                IF state = None
                THEN GradingProjection(e.aggregate_id,
                                       GetOr(e.data, "user_id", "unknown"))
                ELSE state[1], e))
    ELSE Some(UserApply(IF state = None THEN UserProjection(e.aggregate_id)
                        ELSE state[1], e))

RECURSIVE ProjectionFold(_, _, _)
ProjectionFold(state, events, i) ==
    IF i > Len(events) THEN state
    ELSE ProjectionFold(ProjectionApply(state, events[i]), events, i + 1)

replay_projection(aggregate_id) ==
    /\ result = NoResult
    /\ \E events \in GetEventsResults(log, aggregate_id, DefaultFromVersion,
                                      NoVersion) :
         result' = [op |-> "replay_projection", aggregate_id |-> aggregate_id,
                    state |-> ProjectionFold(None, events, 1)]
    /\ ret' = NoRet
    /\ UNCHANGED <<log, handlers, now, pc, call, event, hlive, hidx, hraised,
                   invoked>>
    /\ UNCHANGED pvars

----------------------------------------------------------------------------
(* Inputs *)

\* what the callers of the model append: an event type on an aggregate
\* with its payload, as the command handlers of commands.py do
Templates ==
    {[event_type |-> "grading.requested", aggregate_id |-> "g1",
      data |-> [user_id |-> "u1", code |-> "x=1", language |-> "python",
                dimensions |-> List(<<"code_quality">>)],
      metadata |-> "api"],
     [event_type |-> "grading.completed", aggregate_id |-> "g1",
      data |-> [user_id |-> "u1", score |-> Float(MockScore, 1),
                dimensions |-> List(<<"code_quality">>),
                breakdown |-> [code_quality |-> 90, reliability |-> 80]],
      metadata |-> NoMetadata],
     [event_type |-> "user.created", aggregate_id |-> "u1",
      data |-> [user_id |-> "u1", username |-> "alice",
                email |-> "a@x.com"],
      metadata |-> "api"]}

UsedTypes == {c.event_type : c \in Templates}

ExpectedVersions == {NoVersion} \cup (0..(MaxEvents - 1))

\* the arguments the readers of the model pass
FromVersions == {0, 1, 2}

ToVersions == {NoVersion, 1, 2}

TimeArgs == {NoTime, 0, 1}

Limits == {0, 1, 2, DefaultLimit}

InitialStates == {<<>>, <<0>>}

\* the room left in the table of the model
Room(n) == Len(log) + Cardinality(InFlight) < n

Append_(p, c, ev) ==
    AppendRead(p, c.event_type, c.aggregate_id,
               AggregateTypeOf(c.aggregate_id), c.data, c.metadata, ev)

(* The event store under concurrent writers: two threads append to two     *)
(* aggregates, with and without an expected version.                       *)
Next ==
    \/ \E p \in Procs, c \in Templates, ev \in ExpectedVersions :
          Room(MaxEvents) /\ Append_(p, c, ev)
    \/ \E p \in Procs : AppendCommit(p)
    \/ \E p \in Procs : AppendStorageError(p)
    \/ \E p \in Procs : AppendReturn(p)

Spec == Init /\ [][Next]_vars

(* One append at a time, on a storage layer that commits.                  *)
Quiescent == \A p \in Procs : pc[p] = "idle"

NextSeq ==
    \/ \E p \in Procs, c \in Templates, ev \in ExpectedVersions :
          Room(MaxEvents) /\ Quiescent /\ Append_(p, c, ev)
    \/ \E p \in Procs : AppendCommit(p)
    \/ \E p \in Procs : AppendReturn(p)

SpecSeq == Init /\ [][NextSeq]_vars

(* The handler registry and the fan-out of append: one thread appends      *)
(* while handlers are being registered.                                    *)
NextHandlers ==
    \/ \E t \in UsedTypes, h \in HandlerIds : register_handler(t, h)
    \/ \E c \in Templates, ev \in {NoVersion, 0, 1} :
          Room(MaxHandledEvents) /\ Append_("t1", c, ev)
    \/ AppendCommit("t1")
    \/ AppendStorageError("t1")
    \/ \E raises \in BOOLEAN : PublishHandler("t1", raises)
    \/ AppendReturn("t1")

SpecHandlers == Init /\ [][NextHandlers]_vars

(* The read operations over the tables concurrent writers produce.  A    *)
(* read is one SELECT over the table and touches nothing else, so the      *)
(* model places it between appends: every table that occurs while an       *)
(* append is in flight also occurs once that append has returned or        *)
(* failed.                                                                 *)
NextRead ==
    \/ \E p \in Procs, c \in Templates :
          Room(MaxReadEvents) /\ Append_(p, c, NoVersion)
    \/ \E p \in Procs : AppendCommit(p)
    \/ \E p \in Procs : AppendStorageError(p)
    \/ \E p \in Procs : AppendReturn(p)
    \/ \E a \in AggregateIds, f \in FromVersions, t \in ToVersions :
          Quiescent /\ get_events(a, f, t)
    \/ \E a \in AggregateIds, s \in InitialStates :
          Quiescent /\ replay_events(a, s)

SpecRead == Init /\ [][NextRead]_vars

(* The global feed: get_all_events over tables whose rows carry the        *)
(* timestamps concurrent writers read from an advancing clock.             *)
NextFeed ==
    \/ Tick
    \/ \E p \in Procs, c \in Templates :
          Room(MaxFeedEvents) /\ Append_(p, c, NoVersion)
    \/ \E p \in Procs : AppendCommit(p)
    \/ \E p \in Procs : AppendStorageError(p)
    \/ \E p \in Procs : AppendReturn(p)
    \/ \E t \in {NoType} \cup UsedTypes, f \in TimeArgs, u \in TimeArgs,
          n \in Limits :
          Quiescent /\ get_all_events(t, f, u, n)

SpecFeed == Init /\ [][NextFeed]_vars

(* Every way the table is reached.  The command handlers of commands.py   *)
(* reach it through append alone, the projection manager of               *)
(* projections.py through register_handler, through the handlers append   *)
(* fans out to, and through get_all_events with the default limit and     *)
(* with limit=10000; the remaining reads are get_events and               *)
(* replay_events.                                                         *)
NextLog ==
    \/ \E t \in UsedTypes :
          TotalRegistered < MaxLogHandlers /\ register_handler(t, "h1")
    \/ \E p \in Procs, c \in Templates, ev \in {NoVersion, 0} :
          Room(MaxLogEvents) /\ Append_(p, c, ev)
    \/ \E p \in Procs : AppendCommit(p)
    \/ \E p \in Procs : AppendStorageError(p)
    \/ \E p \in Procs, raises \in BOOLEAN : PublishHandler(p, raises)
    \/ \E p \in Procs : AppendReturn(p)
    \/ \E a \in AggregateIds :
          Quiescent /\ get_events(a, DefaultFromVersion, NoVersion)
    \/ \E n \in {DefaultLimit, RebuildLimit} :
          Quiescent /\ get_all_events(NoType, NoTime, NoTime, n)
    \/ \E a \in AggregateIds, s \in InitialStates :
          Quiescent /\ replay_events(a, s)

SpecLog == Init /\ [][NextLog]_vars

(* The commands of the API, as src/src/event_sourcing/integration.py      *)
(* builds them: ids and names are strings, dimensions a list, the rating   *)
(* an integer.                                                             *)
CmdUserIds == {"u1", "u2"}

\* a grading id no grade_code call has produced
UnknownGradingId == "gx"

GradeCodeCommands ==
    {[user_id |-> u, code |-> "x=1", language |-> "python",
      dimensions |-> List(<<"code_quality">>), metadata |-> "api"] :
        u \in CmdUserIds}

GradingIds(l) ==
    {l[i].aggregate_id :
        i \in {j \in 1..Len(l) : l[j].aggregate_type = "grading"}}

Ratings == {3, 4}

SubmitFeedbackCommands ==
    {[user_id |-> u, grading_id |-> g, rating |-> r, comment |-> None,
      metadata |-> "api"] :
        u \in CmdUserIds, g \in GradingIds(log) \cup {UnknownGradingId},
        r \in Ratings}

\* the names a request for user_id u carries
UserNames(u) ==
    IF u = "u1" THEN {[username |-> "alice", email |-> "a@x.com"],
                      [username |-> "bob", email |-> "b@x.com"]}
    ELSE {[username |-> "carol", email |-> "c@x.com"]}

CreateUserCommands ==
    UNION {{[user_id |-> u, username |-> n.username, email |-> n.email,
             metadata |-> "api"] : n \in UserNames(u)} :
           u \in CmdUserIds \cup {""}}

\* the appends a command makes when none fails
CommandEvents(name, command) ==
    CASE name = "handle_grade_code" -> 2
      [] name = "handle_submit_feedback" ->
            IF command.rating >= 4 THEN 2 ELSE 1
      [] OTHER -> 1

\* no append and no command is running
Idle == Quiescent /\ \A p \in Procs : cmd[p] = NoCmd

CmdRoom(n, name, command) ==
    Idle /\ Len(log) + CommandEvents(name, command) <= n

LookupIds(l) ==
    {l[i].aggregate_id : i \in 1..Len(l)} \cup CmdUserIds
        \cup {UnknownGradingId}

\* the steps of a command on thread p
CommandSteps(p) ==
    \/ CommandAppend(p)
    \/ AppendCommit(p)
    \/ AppendStorageError(p)
    \/ PublishProjection(p)
    \/ AppendReturn(p)
    \/ CommandReturn(p)
    \/ CommandRaise(p)

(* The command handlers over the projection manager: one request at a      *)
(* time, as the endpoints of integration.py run on the event loop, on a    *)
(* storage layer that may fail.                                            *)
NextCmd ==
    \/ Quiescent /\ Tick
    \/ \E c \in GradeCodeCommands :
          CmdRoom(MaxCmdEvents, "handle_grade_code", c)
              /\ handle_grade_code("t1", c)
    \/ \E c \in SubmitFeedbackCommands :
          CmdRoom(MaxCmdEvents, "handle_submit_feedback", c)
              /\ handle_submit_feedback("t1", c)
    \/ \E c \in CreateUserCommands :
          CmdRoom(MaxCmdEvents, "handle_create_user", c)
              /\ handle_create_user("t1", c)
    \/ CommandSteps("t1")
    \/ Idle /\ get_user_statistics

SpecCmd == InitPM /\ [][NextCmd]_vars

----------------------------------------------------------------------------
(* Properties *)

Rows(l) == {l[i] : i \in 1..Len(l)}

\* the versions persisted for an aggregate
VersionsOf(l, a) == {l[i].version : i \in EventsOf(l, a)}

\* the aggregate's current version as the specification defines it: the
\* highest version appended for the id, 0 when there is none
HighestVersion(l, a) ==
    IF VersionsOf(l, a) = {} THEN 0
    ELSE CHOOSE v \in VersionsOf(l, a) : \A w \in VersionsOf(l, a) : w <= v

\* the handlers invoked for one event, in the order of invocation
InvokedHandlers(inv, id) ==
    LET for == SelectSeq(inv, LAMBDA x : x[2] = id)
    IN [i \in 1..Len(for) |-> for[i][1]]

\* C1: in every reachable state the versions persisted for an aggregate
\* are exactly 1..N, N the number of its persisted events: no gap and no
\* duplicate, whatever the interleaving of the append calls.
C1_VersionsContiguous ==
    \A a \in AggregateIds :
        VersionsOf(log, a) = 1..Cardinality(EventsOf(log, a))

\* C2: two concurrent appends on one aggregate that both supply the
\* current version c as expected_version never both succeed: there are
\* never two such calls that both persisted an event with version c + 1.
C2_OneWinner ==
    ~ \E p, q \in Procs :
        /\ p # q
        /\ pc[p] = "publish"
        /\ call[p].expected_version # NoVersion
        /\ event[p].version = call[p].expected_version + 1
        /\ \/ /\ pc[q] = "publish"
              /\ call[q].expected_version = call[p].expected_version
              /\ event[q].aggregate_id = event[p].aggregate_id
           \/ /\ ret.proc = q /\ ret.kind = "ok"
              /\ ret.expected = call[p].expected_version
              /\ ret.aggregate_id = event[p].aggregate_id

\* the step in which thread p enters append and passes the version check
Accepted(p) == pc[p] = "idle" /\ pc'[p] = "commit"

\* the step in which the append of thread p raises the version conflict
Rejected(p) == pc[p] = "idle" /\ ret'.proc = p /\ ret'.kind = "conflict"

\* C3: an append whose expected_version differs from the aggregate's
\* current version (its highest persisted version, 0 if none) is never
\* accepted: it fails with the version conflict that reports expected and
\* actual, persists nothing, leaves the log unchanged and invokes no
\* handler; and only such an append fails with a version conflict.
C3_StaleExpectedFails ==
    [][\A p \in Procs :
        /\ Accepted(p) =>
             \/ call'[p].expected_version = NoVersion
             \/ call'[p].expected_version
                  = HighestVersion(log, event'[p].aggregate_id)
        /\ Rejected(p) =>
             /\ ret'.expected # NoVersion
             /\ ret'.actual = HighestVersion(log, ret'.aggregate_id)
             /\ ret'.expected # ret'.actual
             /\ ret'.event = NoEvent
             /\ log' = log
             /\ invoked' = invoked
             /\ pc'[p] = "idle"]_vars

\* a conflict was just raised on an aggregate that has events, for an
\* event type that has a handler registered
C3_Witness ==
    /\ ret.kind = "conflict"
    /\ ret.expected # ret.actual
    /\ ret.actual >= 1
    /\ handlers[ret.event_type] # <<>>

C5_AppendOnly ==
    [][/\ Len(log') >= Len(log)
       /\ \A i \in 1..Len(log) : log'[i] = log[i]]_vars

\* an append has just failed on an aggregate that has a persisted event
\* for which a handler was invoked
C5_Witness ==
    /\ ret.kind \in {"conflict", "storage"}
    /\ \E i \in EventsOf(log, ret.aggregate_id) :
         InvokedHandlers(invoked, log[i].event_id) # <<>>

C7_HandlerErrorSwallowed ==
    [][\A p \in Procs :
        /\ (pc[p] = "publish" /\ hraised[p] = 0 /\ hraised'[p] # 0) =>
             /\ pc'[p] = "publish"
             /\ log' = log
             /\ event'[p] = event[p]
             /\ ret' = NoRet
        /\ (pc[p] = "publish" /\ hraised[p] # 0 /\ pc'[p] # "publish") =>
             /\ ret'.proc = p /\ ret'.kind = "ok"
             /\ ret'.event = event[p]
             /\ event[p] \in Rows(log')
             /\ InvokedHandlers(invoked', event[p].event_id)
                  = handlers'[event[p].event_type]]_vars

\* an append has returned its event although its first handler raised,
\* and a handler registered after that one was invoked
C7_Witness ==
    /\ ret.kind = "ok"
    /\ ret.event \in Rows(log)
    /\ hraised[ret.proc] = 1
    /\ Len(InvokedHandlers(invoked, ret.event.event_id)) >= 2

\* C8: get_events(aggregate_id, from_version, to_version) returns exactly
\* the persisted events of the aggregate with from_version <= version and
\* (to_version is None or version <= to_version), each once, in ascending
\* version order; the list is empty when the aggregate has no events.
C8_GetEvents ==
    result.op = "get_events" =>
        LET r == result.events
            Matches(e) ==
                /\ e.aggregate_id = result.aggregate_id
                /\ result.from_version <= e.version
                /\ (result.to_version = NoVersion
                    \/ e.version <= result.to_version)
        IN /\ \A i \in 1..Len(r) : r[i] \in Rows(log) /\ Matches(r[i])
           /\ \A e \in Rows(log) :
                Matches(e) => Cardinality({i \in 1..Len(r) : r[i] = e}) = 1
           /\ \A i, j \in 1..Len(r) : i < j => r[i].version <= r[j].version
           /\ (EventsOf(log, result.aggregate_id) = {} => r = <<>>)

\* get_events(id, from_version=2) returned the events from version 2 on
\* of an aggregate that also has a version 1
C8_Witness ==
    /\ result.op = "get_events"
    /\ result.from_version = 2
    /\ result.to_version = NoVersion
    /\ Len(result.events) >= 1
    /\ 1 \in VersionsOf(log, result.aggregate_id)

\* C9: get_all_events(event_type, from_time, to_time, limit) returns
\* events in non-decreasing timestamp order, each satisfying every filter
\* that was supplied, at most limit of them, and the earliest ones: no
\* matching event with a smaller timestamp than a returned one is left
\* out, and none is left out while the limit is not reached.
C9_GetAllEvents ==
    result.op = "get_all_events" =>
        LET r == result.events
            Matches(e) ==
                /\ (result.event_type # NoType
                    => e.event_type = result.event_type)
                /\ (result.from_time # NoTime
                    => result.from_time <= e.timestamp)
                /\ (result.to_time # NoTime
                    => e.timestamp <= result.to_time)
            Left == {e \in Rows(log) :
                       Matches(e) /\ \A i \in 1..Len(r) : r[i] # e}
        IN /\ \A i, j \in 1..Len(r) :
                i < j => r[i].timestamp <= r[j].timestamp /\ r[i] # r[j]
           /\ \A i \in 1..Len(r) : r[i] \in Rows(log) /\ Matches(r[i])
           /\ Len(r) <= result.limit
           /\ \A e \in Left : \A i \in 1..Len(r) :
                ~(e.timestamp < r[i].timestamp)
           /\ (Left # {} => Len(r) = result.limit)

\* get_all_events with a type filter and limit 1 returned the earlier of
\* two matching events, which was inserted after the later one
C9_Witness ==
    /\ result.op = "get_all_events"
    /\ result.event_type # NoType
    /\ result.limit = 1
    /\ Len(result.events) = 1
    /\ Len(log) >= 2
    /\ log[1].event_type = result.event_type
    /\ log[2] = result.events[1]
    /\ log[2].timestamp < log[1].timestamp

\* C10: replay_events returns the left fold of apply_func over the
\* aggregate's events in ascending version order from initial_state
\* (initial_state itself when there is none), and any replay over the
\* same log with the same arguments returns that same state.
C10_ReplayDeterministic ==
    result.op = "replay_events" =>
        /\ \E s \in OrderByVersion(log, EventsOf(log, result.aggregate_id)) :
             result.state
               = FoldLeft(result.initial_state, ToEvents(log, s), 1)
        /\ (EventsOf(log, result.aggregate_id) = {}
            => result.state = result.initial_state)
        /\ \A events \in GetEventsResults(log, result.aggregate_id,
                                          DefaultFromVersion, NoVersion) :
             ReplayFold(result.initial_state, events) = result.state

(* Replay of one aggregate into its projection, next to the live          *)
(* projections the handlers maintain while commands are served.            *)
NextReplay ==
    \/ Quiescent /\ Tick
    \/ \E c \in GradeCodeCommands :
          CmdRoom(MaxReplayEvents, "handle_grade_code", c)
              /\ handle_grade_code("t1", c)
    \/ \E c \in SubmitFeedbackCommands :
          CmdRoom(MaxReplayEvents, "handle_submit_feedback", c)
              /\ handle_submit_feedback("t1", c)
    \/ \E c \in CreateUserCommands :
          CmdRoom(MaxReplayEvents, "handle_create_user", c)
              /\ handle_create_user("t1", c)
    \/ CommandSteps("t1")
    \/ \E a \in LookupIds(log) :
          Idle /\ get_events(a, DefaultFromVersion, NoVersion)
    \/ \E a \in LookupIds(log) : Idle /\ replay_projection(a)

SpecReplay == InitPM /\ [][NextReplay]_vars

(* The projection manager between commands: the lookups and the rebuilds *)
(* of the maps from the table.                                             *)
NextRebuild ==
    \/ Quiescent /\ Tick
    \/ \E c \in GradeCodeCommands :
          CmdRoom(MaxRebuildEvents, "handle_grade_code", c)
              /\ handle_grade_code("t1", c)
    \/ \E c \in SubmitFeedbackCommands :
          CmdRoom(MaxRebuildEvents, "handle_submit_feedback", c)
              /\ handle_submit_feedback("t1", c)
    \/ \E c \in CreateUserCommands :
          CmdRoom(MaxRebuildEvents, "handle_create_user", c)
              /\ handle_create_user("t1", c)
    \/ CommandSteps("t1")
    \/ Idle /\ rebuild_all_projections
    \/ \E u \in CmdUserIds : Idle /\ rebuild_user_projection(u)
    \/ \E a \in LookupIds(log) : Idle /\ get_user_projection(a)
    \/ \E a \in LookupIds(log) : Idle /\ get_grading_projection(a)
    \/ \E a \in LookupIds(log) :
          Idle /\ get_events(a, DefaultFromVersion, NoVersion)

SpecRebuild == InitPM /\ [][NextRebuild]_vars

(* The projections under events of every kind.  EventStore.append is the  *)
(* public write operation: next to the commands, callers append events of  *)
(* each type, with scores the grading collaborator may compute, with and   *)
(* without a user_id, and a grading is requested with an empty user_id,    *)
(* which the request model of integration.py accepts.                      *)
Scores == {Float(70, 1), Float(703, 10), Float(801, 10)}

ApplyTemplates ==
    {[event_type |-> "grading.requested", aggregate_id |-> "g1",
      aggregate_type |-> "grading",
      data |-> [user_id |-> "u1", code |-> "x=1", language |-> "python",
                dimensions |-> List(<<"code_quality">>)]],
     [event_type |-> "grading.completed", aggregate_id |-> "g2",
      aggregate_type |-> "grading",
      data |-> [score |-> Float(80, 1)]],
     [event_type |-> "feedback.submitted", aggregate_id |-> "g1",
      aggregate_type |-> "grading",
      data |-> [user_id |-> "u2", grading_id |-> "g1", rating |-> 5,
                comment |-> None]],
     [event_type |-> "strategy.learned", aggregate_id |-> "u1",
      aggregate_type |-> "user",
      data |-> [user_id |-> "u1", grading_id |-> "g1",
                strategy |-> "positive_feedback_pattern"]],
     [event_type |-> "user.created", aggregate_id |-> "u1",
      aggregate_type |-> "user",
      data |-> [user_id |-> "u1", username |-> "alice",
                email |-> "a@x.com"]],
     [event_type |-> "user.updated", aggregate_id |-> "u1",
      aggregate_type |-> "user",
      data |-> [user_id |-> "u1", username |-> "bob"]]}
    \cup {[event_type |-> "grading.completed", aggregate_id |-> "g1",
           aggregate_type |-> "grading",
           data |-> [user_id |-> "u1", score |-> sc]] : sc \in Scores}

AnonymousGradeCode ==
    [user_id |-> "", code |-> "x=1", language |-> "python",
     dimensions |-> List(<<"code_quality">>), metadata |-> "api"]

NextApply ==
    \/ Quiescent /\ Tick
    \/ \E c \in ApplyTemplates, ev \in {NoVersion, 0} :
          /\ Idle
          /\ Room(MaxApplyEvents)
          /\ AppendRead("t1", c.event_type, c.aggregate_id, c.aggregate_type,
                        c.data, NoMetadata, ev)
    \/ CmdRoom(MaxApplyEvents, "handle_grade_code", AnonymousGradeCode)
          /\ handle_grade_code("t1", AnonymousGradeCode)
    \/ CommandSteps("t1")

SpecApply == InitPM /\ [][NextApply]_vars

(* rebuild_all_projections next to a thread that appends.  The two run   *)
(* on the same maps without a lock; the rebuild is interleaved between     *)
(* its statements: the two clears, the query, and each turn of its loop.   *)
(* cmd[p] holds the rebuild's position, the events it read and the index   *)
(* of the next one.                                                        *)
MaxConcEvents == 2

\* lines 211-213
RebuildClear(p) ==
    /\ pc[p] = "idle"
    /\ cmd[p] = NoCmd
    /\ user_projections' = <<>>
    /\ grading_projections' = <<>>
    /\ cmd' = [cmd EXCEPT ![p] = [name |-> "rebuild_all_projections",
                                  step |-> "read"]]
    /\ ret' = NoRet
    /\ result' = NoResult
    /\ UNCHANGED <<log, handlers, now, pc, call, event, hlive, hidx, hraised,
                   invoked>>

\* line 216
RebuildRead(p) ==
    /\ cmd[p].name = "rebuild_all_projections"
    /\ cmd[p].step = "read"
    /\ \E events \in GetAllEventsResults(log, NoType, NoTime, NoTime,
                                         RebuildLimit) :
          cmd' = [cmd EXCEPT ![p] = [name |-> "rebuild_all_projections",
                                     step |-> "apply", events |-> events,
                                     i |-> 1]]
    /\ ret' = NoRet
    /\ result' = NoResult
    /\ UNCHANGED <<log, handlers, now, pc, call, event, hlive, hidx, hraised,
                   invoked, user_projections, grading_projections>>

\* one turn of the loop of lines 219-233, on the maps as they are now
RebuildApply(p) ==
    /\ cmd[p].name = "rebuild_all_projections"
    /\ cmd[p].step = "apply"
    /\ cmd[p].i <= Len(cmd[p].events)
    /\ LET maps == RebuildFold([user_projections |-> user_projections,
                                grading_projections |-> grading_projections],
                               <<cmd[p].events[cmd[p].i]>>, 1)
       IN /\ user_projections' = maps.user_projections
          /\ grading_projections' = maps.grading_projections
    /\ cmd' = [cmd EXCEPT ![p].i = @ + 1]
    /\ ret' = NoRet
    /\ result' = NoResult
    /\ UNCHANGED <<log, handlers, now, pc, call, event, hlive, hidx, hraised,
                   invoked>>

\* lines 235-238
RebuildReturn(p) ==
    /\ cmd[p].name = "rebuild_all_projections"
    /\ cmd[p].step = "apply"
    /\ cmd[p].i > Len(cmd[p].events)
    /\ cmd' = [cmd EXCEPT ![p] = NoCmd]
    /\ result' = [op |-> "rebuild_all_projections",
                  applied |-> cmd[p].events]
    /\ ret' = NoRet
    /\ UNCHANGED <<log, handlers, now, pc, call, event, hlive, hidx, hraised,
                   invoked, user_projections, grading_projections>>

ConcTemplates ==
    {c \in ApplyTemplates :
        /\ c.aggregate_id = "g1"
        /\ c.event_type \in {"grading.requested", "grading.completed"}
        /\ c.event_type = "grading.completed" =>
              c.data.score = Float(70, 1)}

NextConc ==
    \/ \E c \in ConcTemplates :
          /\ pc["t1"] = "idle"
          /\ Room(MaxConcEvents)
          /\ AppendRead("t1", c.event_type, c.aggregate_id, c.aggregate_type,
                        c.data, NoMetadata, NoVersion)
    \/ AppendCommit("t1")
    \/ PublishProjection("t1")
    \/ AppendReturn("t1")
    \/ RebuildClear("t2")
    \/ RebuildRead("t2")
    \/ RebuildApply("t2")
    \/ RebuildReturn("t2")

SpecConc == InitPM /\ [][NextConc]_vars

----------------------------------------------------------------------------
(* Properties of the command handlers and of the projections.              *)

\* the rows a command added to the table it started from
Added(r) == SubSeq(log, Len(r.before.log) + 1, Len(log))

\* the command of the record r has returned and the table still starts
\* with the rows it found
Returned(r, name) ==
    /\ r.op = name
    /\ ~r.raised
    /\ IsPrefix(r.before.log, log)

AggregateIdsOf(l) == {l[i].aggregate_id : i \in 1..Len(l)}

StrategiesLearned(ups, u) ==
    IF u \in DOMAIN ups THEN ups[u].strategies_learned ELSE 0

\* C15: when handle_submit_feedback returns it has appended exactly one
\* feedback.submitted event, to the aggregate command.grading_id, and one
\* strategy.learned event, to the aggregate of the acting user, exactly
\* when rating >= 4; strategies_learned of the acting user's projection has
\* grown by exactly 1 when rating >= 4 and is what it was when rating < 4.
C15_SubmitFeedback ==
    result.op = "handle_submit_feedback" /\ ~result.raised =>
        LET c == result.command
            added == Added(result)
            old == StrategiesLearned(result.before.user_projections,
                                     c.user_id)
            new == StrategiesLearned(user_projections, c.user_id)
        IN /\ IsPrefix(result.before.log, log)
           /\ Len(added) >= 1
           /\ added[1].event_type = "feedback.submitted"
           /\ added[1].aggregate_id = c.grading_id
           /\ c.user_id \in DOMAIN user_projections
           /\ IF c.rating >= 4
              THEN /\ Len(added) = 2
                   /\ added[2].event_type = "strategy.learned"
                   /\ added[2].aggregate_id = c.user_id
                   /\ new = old + 1
              ELSE /\ Len(added) = 1
                   /\ new = old

\* feedback with rating 4 returns for a user who had a projection
C15_Witness ==
    /\ Returned(result, "handle_submit_feedback")
    /\ result.command.rating >= 4
    /\ result.command.user_id \in DOMAIN result.before.user_projections
    /\ StrategiesLearned(user_projections, result.command.user_id) = 1


\* C16 as stated: when handle_create_user returns it has appended exactly
\* one event, user.created, to the aggregate of the supplied user_id (of a
\* new id when none is supplied), it returns that id, the event is version
\* 1 of that aggregate, and the live UserProjection of the id has the
\* username and email of the command.
C16_CreateUser ==
    result.op = "handle_create_user" /\ ~result.raised =>
        LET c == result.command
            id == result.returned
            added == Added(result)
        IN /\ IsPrefix(result.before.log, log)
           /\ Len(added) = 1
           /\ added[1].event_type = "user.created"
           /\ added[1].aggregate_id = id
           /\ IF c.user_id # "" THEN id = c.user_id
              ELSE id \notin AggregateIdsOf(result.before.log)
           /\ added[1].version = 1
           /\ id \in DOMAIN user_projections
           /\ user_projections[id].username = Some(c.username)
           /\ user_projections[id].email = Some(c.email)

\* C16 amended: the same, the version of the event being one more than the
\* highest version the aggregate of that id held when the command began,
\* which is version 1 when that aggregate held no event, as it does
\* whenever the id is generated.
C16_CreateUserAmended ==
    result.op = "handle_create_user" /\ ~result.raised =>
        LET c == result.command
            id == result.returned
            added == Added(result)
        IN /\ IsPrefix(result.before.log, log)
           /\ Len(added) = 1
           /\ added[1].event_type = "user.created"
           /\ added[1].aggregate_id = id
           /\ IF c.user_id # "" THEN id = c.user_id
              ELSE /\ id \notin AggregateIdsOf(result.before.log)
                   /\ added[1].version = 1
           /\ added[1].version =
                  _get_current_version(result.before.log, id) + 1
           /\ id \in DOMAIN user_projections
           /\ user_projections[id].username = Some(c.username)
           /\ user_projections[id].email = Some(c.email)

\* a user is created under an id whose aggregate already holds an event
C16_Witness ==
    /\ Returned(result, "handle_create_user")
    /\ result.command.user_id # ""
    /\ EventsOf(result.before.log, result.returned) # {}
    /\ log[Len(log)].version = 2

\* the feedback command of thread p began on a table that held no event of
\* the aggregate command.grading_id
FeedbackOnNewAggregate(p) ==
    /\ cmd[p] # NoCmd
    /\ cmd[p].name = "handle_submit_feedback"
    /\ EventsOf(cmd[p].before.log, cmd[p].command.grading_id) = {}

\* C17: handle_submit_feedback with a grading_id whose aggregate has no
\* event is not refused: its append passes the version check and builds
\* feedback.submitted as version 1 of that aggregate, the commit persists
\* that event, nothing but a failure of the storage layer makes the command
\* raise, and the command returns.
C17_NoReferentialCheck ==
    [][\A p \in Procs :
         FeedbackOnNewAggregate(p) /\ cmd[p].step = "feedback" =>
            /\ ret'.kind # "conflict"
            /\ pc[p] = "idle" /\ pc'[p] = "commit" =>
                  /\ event'[p].event_type = "feedback.submitted"
                  /\ event'[p].aggregate_id = cmd[p].command.grading_id
                  /\ event'[p].version = 1
            /\ pc[p] = "commit" /\ pc'[p] = "publish" =>
                  log' = Append(log, event[p])
            /\ cmd'[p].step = "raise" => ret'.kind = "storage"
            /\ cmd'[p].step \in {"strategy", "return"} =>
                  /\ Len(log) > Len(cmd[p].before.log)
                  /\ LET e == log[Len(cmd[p].before.log) + 1]
                     IN /\ e.event_type = "feedback.submitted"
                        /\ e.aggregate_id = cmd[p].command.grading_id
                        /\ e.version = 1
      ]_vars

\* feedback on a grading id without events has returned and the event is
\* version 1 of that aggregate
C17_Witness ==
    /\ Returned(result, "handle_submit_feedback")
    /\ EventsOf(result.before.log, result.command.grading_id) = {}
    /\ Len(result.before.log) > 0
    /\ \E i \in EventsOf(log, result.command.grading_id) :
          /\ log[i].event_type = "feedback.submitted"
          /\ log[i].version = 1


\* the append of thread p fails in this step: the commit fails in the
\* storage layer, or the version check rejects the call
AppendFails(p) ==
    \/ pc[p] = "commit" /\ pc'[p] = "idle"
    \/ pc[p] = "idle" /\ ret'.proc = p /\ ret'.kind = "conflict"

\* C18: an append that fails persists nothing and its error leaves append
\* and the command that called it: the command makes no further append and
\* ends by raising to its caller.  A command that returns has therefore
\* persisted every event it was to append.
C18_WriteFailurePropagates ==
    [][\A p \in Procs :
         /\ AppendFails(p) =>
               /\ log' = log
               /\ ret'.proc = p
               /\ ret'.kind \in {"storage", "conflict"}
               /\ cmd[p] # NoCmd => cmd'[p].step = "raise"
         /\ cmd[p] # NoCmd /\ cmd[p].step = "raise" /\ cmd'[p] # cmd[p] =>
               /\ log' = log
               /\ cmd'[p] = NoCmd
               /\ result'.op = cmd[p].name
               /\ result'.raised
         /\ cmd[p] # NoCmd /\ cmd'[p] = NoCmd /\ ~result'.raised =>
               /\ result'.op = cmd[p].name
               /\ Len(log) = Len(cmd[p].before.log)
                               + CommandEvents(cmd[p].name, cmd[p].command)
      ]_vars

\* handle_grade_code has raised to its caller when its second append failed:
\* the table holds the first event and not the second
C18_Witness ==
    /\ result.op = "handle_grade_code"
    /\ result.raised
    /\ Len(log) = Len(result.before.log) + 1
    /\ log[Len(log)].event_type = "grading.requested"


\* the users a sequence of events creates, and the grading.completed
\* events in it
CreatedUsers(l) ==
    {l[i].aggregate_id : i \in {j \in 1..Len(l) :
                                   l[j].event_type = "user.created"}}

Completed(l) == {i \in 1..Len(l) : l[i].event_type = "grading.completed"}

\* the table is user.created events followed by grading.completed events
\* of the users created, with their grading.requested events
UsersThenGradings(l) ==
    /\ \A i \in 1..Len(l) :
          l[i].event_type \in {"user.created", "grading.requested",
                               "grading.completed"}
    /\ \A i, j \in 1..Len(l) :
          l[i].event_type = "user.created"
          /\ l[j].event_type = "grading.completed" => i < j
    /\ \A i \in Completed(l) : l[i].data.user_id \in CreatedUsers(l)

LiveProjection(a) ==
    IF a \in GradingIds(log) THEN Lookup(grading_projections, a)
    ELSE Lookup(user_projections, a)

\* every event the user projection of user a has received is an event of
\* the aggregate a
OwnEventsOnly(l, a) ==
    \A i \in 1..Len(l) :
        l[i].event_type \in UserEventTypes /\ UserKey(l[i]) = a
            => l[i].aggregate_id = a

\* C11 as stated: for every aggregate of the table, the replay of its
\* events from a blank projection with the projection's apply function is
\* field for field the live projection of that aggregate.
C11_ReplayEqualsLive ==
    (/\ result.op = "replay_projection"
     /\ EventsOf(log, result.aggregate_id) # {})
        => result.state = LiveProjection(result.aggregate_id)

\* C11 amended: this holds, when appends do not overlap, for every grading
\* aggregate and for every user aggregate whose projection has received
\* events of that aggregate only.
C11_ReplayEqualsLiveOwnEvents ==
    (/\ result.op = "replay_projection"
     /\ EventsOf(log, result.aggregate_id) # {}
     /\ \/ result.aggregate_id \in GradingIds(log)
        \/ OwnEventsOnly(log, result.aggregate_id))
        => result.state = LiveProjection(result.aggregate_id)

\* the replay of a grading aggregate with two events
C11_Witness ==
    /\ result.op = "replay_projection"
    /\ result.aggregate_id \in GradingIds(log)
    /\ Cardinality(EventsOf(log, result.aggregate_id)) = 2
    /\ result.state # None
    /\ result.state[1].status = "completed"
    /\ result.state = LiveProjection(result.aggregate_id)


\* the maps the handlers have built when every event of the table was
\* applied as it was appended
LiveMaps(l) == RebuildAll(ToEvents(l, [i \in 1..Len(l) |-> i]))

MapsAreLive ==
    /\ user_projections = LiveMaps(log).user_projections
    /\ grading_projections = LiveMaps(log).grading_projections

\* C12: in a state in which no append and no command is running, no handler
\* has raised and the maps are the ones the handlers maintained,
\* rebuild_all_projections leaves both maps as they were: same keys, same
\* field values.
C12_RebuildEqualsLive ==
    [][(/\ Idle
        /\ MapsAreLive
        /\ result'.op = "rebuild_all_projections")
          => /\ user_projections' = user_projections
             /\ grading_projections' = grading_projections]_vars

\* C13: rebuild_all_projections called again right after
\* rebuild_all_projections, the table unchanged, leaves both maps as the
\* first call left them.
C13_RebuildIdempotent ==
    [][(/\ result.op = "rebuild_all_projections"
        /\ result'.op = "rebuild_all_projections"
        /\ log' = log)
          => /\ user_projections' = user_projections
             /\ grading_projections' = grading_projections]_vars


\* the ids for which the table holds an event the user handler, or the
\* grading handler, is registered for
UsersWithEvents(l) ==
    {UserKey(l[i]) : i \in {j \in 1..Len(l) :
                               l[j].event_type \in UserEventTypes}}

GradingsWithEvents(l) ==
    {l[i].aggregate_id : i \in {j \in 1..Len(l) :
                                   l[j].event_type \in GradingEventTypes}}

\* C20: a lookup of an id without a projection returns None and a lookup
\* of an id with one returns it, get_events of an aggregate without events
\* returns the empty sequence, and between commands an id has a projection
\* exactly when an event relevant to it was applied.
C20_LookupsAndPresence ==
    /\ result.op = "get_user_projection" =>
          result.returned = Lookup(user_projections, result.id)
    /\ result.op = "get_grading_projection" =>
          result.returned = Lookup(grading_projections, result.id)
    /\ result.op = "get_events" /\ EventsOf(log, result.aggregate_id) = {}
          => result.events = <<>>
    /\ Idle => /\ DOMAIN user_projections = UsersWithEvents(log)
               /\ DOMAIN grading_projections = GradingsWithEvents(log)


\* in a sequence of events, the events of every one aggregate come in
\* ascending version order
VersionOrderWithinAggregates(events) ==
    \A i, j \in 1..Len(events) :
        (/\ i < j
         /\ events[i].aggregate_id = events[j].aggregate_id)
            => events[i].version < events[j].version

\* C21: rebuild_all_projections and rebuild_user_projection apply the
\* events of any one aggregate in ascending version order, also when
\* several events of the aggregate carry the same timestamp.
C21_RebuildInVersionOrder ==
    result.op \in {"rebuild_all_projections", "rebuild_user_projection"}
        => VersionOrderWithinAggregates(result.applied)


\* C22: rebuild_user_projection(u) applies to a blank UserProjection
\* exactly the events with data.user_id = u or aggregate_id = u, stores the
\* result as the projection of u, leaves every other user projection and
\* every grading projection as it was, and its result is the projection
\* rebuild_all_projections produces for u from the same table.
C22_RebuildUserProjection ==
    [][result'.op = "rebuild_user_projection" /\ result' # result =>
         LET u == result'.id
         IN /\ \A i \in 1..Len(result'.applied) :
                  \/ Get(result'.applied[i].data, "user_id") = Some(u)
                  \/ result'.applied[i].aggregate_id = u
            /\ Len(result'.applied) =
                  Cardinality({i \in 1..Len(log) :
                                  \/ Get(log[i].data, "user_id") = Some(u)
                                  \/ log[i].aggregate_id = u})
            /\ result'.returned =
                  UserFold(UserProjection(u), result'.applied, 1)
            /\ user_projections' = DictSet(user_projections, u,
                                           result'.returned)
            /\ grading_projections' = grading_projections
            /\ \E events \in GetAllEventsResults(log, NoType, NoTime, NoTime,
                                                 RebuildLimit) :
                  Lookup(RebuildAll(events).user_projections, u)
                      = Some(result'.returned)
      ]_vars


\* the events of type t in the table that carry data.user_id = u
EventsOfUser(l, t, u) ==
    {i \in 1..Len(l) : /\ l[i].event_type = t
                       /\ Get(l[i].data, "user_id") = Some(u)}

\* C23: between appends, no handler having raised, the counters of every
\* live UserProjection are the numbers of events of the table: of
\* grading.completed events with data.user_id = u for total_gradings, of
\* feedback.submitted events with data.user_id = u for feedback_count, and
\* of strategy.learned events of u for strategies_learned.
C23_CountersMatchLog ==
    Idle =>
        \A u \in DOMAIN user_projections :
            /\ user_projections[u].total_gradings =
                  Cardinality(EventsOfUser(log, "grading.completed", u))
            /\ user_projections[u].feedback_count =
                  Cardinality(EventsOfUser(log, "feedback.submitted", u))
            /\ user_projections[u].strategies_learned =
                  Cardinality(EventsOfUser(log, "strategy.learned", u))


\* C26: no UserProjection is keyed by the id of a grading aggregate: an
\* event of a grading aggregate reaches the projection of its data.user_id
\* only, also when that user_id is missing or empty.
C26_UserProjectionKeys ==
    \A k \in DOMAIN user_projections : k \notin GradingIds(log)


\* the grading.completed events of user u, in table order
CompletedOf(l, u) ==
    SelectSeq(l, LAMBDA e : /\ e.event_type = "grading.completed"
                             /\ Get(e.data, "user_id") = Some(u))

\* the orders of n things
Orders(n) == {f \in [1..n -> 1..n] : \A i, j \in 1..n : f[i] = f[j] => i = j}

Reordered(es, f) == [i \in 1..Len(es) |-> es[f[i]]]

\* sum(e.data["score"] for e in es), as Python adds floats
RECURSIVE SumScores(_, _)
SumScores(es, n) ==
    IF n = 0 THEN Float(0, 1)
    ELSE FloatAdd(SumScores(es, n - 1),
                  GetOr(es[n].data, "score", Float(0, 1)))

\* the projection holds the mean of the scores: their sum, added up in
\* some order, divided by their number
AverageIsMean(p, es) ==
    \E f \in Orders(Len(es)) :
        p.average_score
            = FloatDivInt(SumScores(Reordered(es, f), Len(es)), Len(es))

\* average_score * total_gradings is the sum of the scores, in some order
ProductIsSum(p, es) ==
    \E f \in Orders(Len(es)) :
        FloatMulInt(p.average_score, p.total_gradings)
            = SumScores(Reordered(es, f), Len(es))

\* the events applied in any other order leave the same average
OrderIndependent(p, es) ==
    \A f \in Orders(Len(es)) :
        UserFold(UserProjection(p.user_id), Reordered(es, f), 1).average_score
            = p.average_score

\* C24: whatever grading.completed events of one user were applied, the
\* average_score of the user's projection is the arithmetic mean of their
\* scores, average_score * total_gradings is the sum of the scores, and
\* the events in any other order of arrival give the same average_score.
C24_AverageIsMean ==
    Idle =>
        \A u \in CmdUserIds :
            LET es == CompletedOf(log, u)
                p == user_projections[u]
            IN es # <<>> =>
                  /\ u \in DOMAIN user_projections
                  /\ p.total_gradings = Len(es)
                  /\ AverageIsMean(p, es)
                  /\ ProductIsSum(p, es)
                  /\ OrderIndependent(p, es)

\* the event _handle_grading_event is handed in this step, if it runs
GradingHandlerRuns ==
    /\ Len(invoked') = Len(invoked) + 1
    /\ invoked'[Len(invoked')][1] = "_handle_grading_event"

HandledEvent == CHOOSE e \in Rows(log) : e.event_id = invoked'[Len(invoked')][2]

MapsAreRebuilt ==
    \E events \in GetAllEventsResults(log, NoType, NoTime, NoTime,
                                      RebuildLimit) :
        /\ user_projections = RebuildAll(events).user_projections
        /\ grading_projections = RebuildAll(events).grading_projections

\* C27: whatever the interleaving of a rebuild_all_projections with an
\* append, once both have finished the maps are those a rebuild from the
\* table as it is then leaves: no event is applied twice and none is lost.
C27_RebuildWithAppend == Idle => MapsAreRebuilt

\* the first event of the running command c is in the table l with its
\* effects on the maps ups and gps
FirstEventStays(c, l, ups, gps) ==
    LET added == SubSeq(l, Len(c.before.log) + 1, Len(l))
        before == c.before
        user_id == c.command.user_id
    IN /\ IsPrefix(before.log, l)
       /\ Len(added) = 1
       /\ c.name = "handle_grade_code" =>
             /\ added[1].event_type = "grading.requested"
             /\ added[1].aggregate_id = c.id
             /\ added[1].version = 1
             /\ c.id \notin DOMAIN before.grading_projections
             /\ c.id \in DOMAIN gps
             /\ gps[c.id].status = "pending"
             /\ gps[c.id].score = None
             /\ gps[c.id].completed_at = None
             /\ gps[c.id].requested_at = Some(added[1].timestamp)
             /\ ups = before.user_projections
       /\ c.name = "handle_submit_feedback" =>
             /\ added[1].event_type = "feedback.submitted"
             /\ added[1].aggregate_id = c.command.grading_id
             /\ c.command.rating >= 4
             /\ c.command.grading_id \in DOMAIN gps
             /\ gps[c.command.grading_id].feedback_received
             /\ user_id \in DOMAIN ups
             /\ ups[user_id].feedback_count
                   = 1 + (IF user_id \in DOMAIN before.user_projections
                          THEN before.user_projections[user_id].feedback_count
                          ELSE 0)
             /\ StrategiesLearned(ups, user_id)
                   = StrategiesLearned(before.user_projections, user_id)

\* C28: when the second append of handle_grade_code (grading.completed) or
\* of handle_submit_feedback (strategy.learned) fails, the command raises,
\* and the event of its first append stays in the table with its effects
\* on the projections, then and when the command has raised: the
\* GradingProjection of the new grading stays "pending" without a score,
\* resp. the feedback stays counted and flagged and no strategy is learned.
C28_NotAtomic ==
    [][\A p \in Procs :
         /\ (/\ cmd[p] # NoCmd
             /\ cmd[p].step \in {"completed", "strategy"}
             /\ AppendFails(p)) =>
                /\ cmd'[p] # NoCmd
                /\ cmd'[p].step = "raise"
                /\ FirstEventStays(cmd[p], log', user_projections',
                                   grading_projections')
         /\ (/\ cmd[p] # NoCmd
             /\ cmd[p].step = "raise"
             /\ cmd'[p] = NoCmd
             /\ Len(log) > Len(cmd[p].before.log)) =>
                /\ result'.op = cmd[p].name
                /\ result'.raised
                /\ FirstEventStays(cmd[p], log', user_projections',
                                   grading_projections')
      ]_vars

\* handle_grade_code has raised at its second append
C28_Witness ==
    /\ result.op = "handle_grade_code"
    /\ result.raised
    /\ Len(Added(result)) = 1
    /\ Added(result)[1].event_type = "grading.requested"

\* C29: under the command handlers, a GradingProjection whose status is
\* "completed" stays in the map, "completed", with the score, user_id,
\* requested_at and completed_at it has; a step changes nothing of it but
\* feedback_received, and feedback_received of no projection goes back
\* from true to false.
C29_CompletedIsStable ==
    [][\A g \in DOMAIN grading_projections :
         LET old == grading_projections[g]
             new == grading_projections'[g]
         IN /\ g \in DOMAIN grading_projections'
            /\ old.feedback_received => new.feedback_received
            /\ old.status = "completed" =>
                  /\ new.status = "completed"
                  /\ new.score = old.score
                  /\ new.user_id = old.user_id
                  /\ new.requested_at = old.requested_at
                  /\ new.completed_at = old.completed_at
                  /\ new = [old EXCEPT
                              !.feedback_received = new.feedback_received]
      ]_vars

\* feedback from another user has reached a completed grading
C29_Witness ==
    /\ Returned(result, "handle_submit_feedback")
    /\ result.command.grading_id \in DOMAIN grading_projections
    /\ LET p == grading_projections[result.command.grading_id]
       IN /\ p.status = "completed"
          /\ p.score # None
          /\ p.feedback_received
          /\ p.user_id # result.command.user_id

\* the events of aggregate a in the table, in table order
HistoryOf(l, a) == SelectSeq(l, LAMBDA e : e.aggregate_id = a)

\* the user an event addresses: the one its data names, the aggregate
\* itself for an event of a user aggregate
AddressedUsers(e) ==
    LET user_id == Get(e.data, "user_id")
    IN IF user_id # None /\ user_id[1] # "" THEN {user_id[1]}
       ELSE IF e.aggregate_type = "user" THEN {e.aggregate_id}
       ELSE {}

\* the entries of a map outside the keys are what they were
SameOutside(old, new, keys) ==
    \A k \in (DOMAIN old \cup DOMAIN new) \ keys :
        k \in DOMAIN old /\ k \in DOMAIN new /\ new[k] = old[k]

\* C30: an append to an aggregate, successful or failed, leaves the events
\* and the current version of every other aggregate as they are, a failed
\* one leaves the table as it is; a handler run for an event changes only
\* the GradingProjection of the event's aggregate_id and the UserProjection
\* of the event's user; events of types without a projection handler
\* change no projection.
C30_Frame ==
    [][/\ \A a \in AggregateIdsOf(log) \cup AggregateIdsOf(log') :
             (\A p \in Procs :
                 ~(pc[p] = "commit" /\ event[p].aggregate_id = a)) =>
                    /\ HistoryOf(log', a) = HistoryOf(log, a)
                    /\ _get_current_version(log', a)
                          = _get_current_version(log, a)
       /\ \A p \in Procs : AppendFails(p) => log' = log
       /\ (\/ user_projections' # user_projections
           \/ grading_projections' # grading_projections) =>
             \E p \in Procs :
                 /\ pc[p] = "publish"
                 /\ event[p].event_type \notin
                       {"user.updated", "plugin.loaded", "threshold.updated"}
                 /\ SameOutside(grading_projections, grading_projections',
                                {event[p].aggregate_id})
                 /\ SameOutside(user_projections, user_projections',
                                AddressedUsers(event[p]))
      ]_vars

====
